---- MODULE Spec2Model ----
(***************************************************************************)
(* A state-machine model of ClipGenius (alexusa404-creator/Vidyne):        *)
(* the command line flow of clipgenius/cli.py over the pure helpers of     *)
(* utils.py and batch.py, the result objects of downloader.py and the      *)
(* fallback strategy of ai_agent.py.                                       *)
(*                                                                         *)
(* Python strings are TLA+ strings; the operators below work on them       *)
(* character by character through Len, SubSeq and \o.                      *)
(***************************************************************************)
EXTENDS Integers, Sequences, FiniteSets, TLC

(***************************************************************************)
(* Bounds of the model.                                                    *)
(***************************************************************************)
\* The longest duration (in minutes past the hour mark) explored beyond
\* the boundary values when suggest_filename is checked on its own.
MaxExtraMinutes == 2

(***************************************************************************)
(* Python built-ins on strings.                                            *)
(***************************************************************************)
Min(a, b) == IF a < b THEN a ELSE b

Range(f) == {f[i] : i \in DOMAIN f}

\* s[i] as a one-character string (1-based).
CharAt(s, i) == SubSeq(s, i, i)

\* s[:n]
Truncate(s, n) == SubSeq(s, 1, Min(n, Len(s)))

\* s[n:] (0-based n, as in Python)
DropFirst(s, n) == SubSeq(s, n + 1, Len(s))

\* s.startswith(p)
StartsWith(s, p) == Len(s) >= Len(p) /\ SubSeq(s, 1, Len(p)) = p

\* sub in s
Contains(s, sub) ==
    \E i \in 1..(Len(s) - Len(sub) + 1) : SubSeq(s, i, i + Len(sub) - 1) = sub

LowerLetters == <<"a","b","c","d","e","f","g","h","i","j","k","l","m",
                  "n","o","p","q","r","s","t","u","v","w","x","y","z">>
UpperLetters == <<"A","B","C","D","E","F","G","H","I","J","K","L","M",
                  "N","O","P","Q","R","S","T","U","V","W","X","Y","Z">>
DigitChars == <<"0","1","2","3","4","5","6","7","8","9">>

IsLetter(c) == c \in Range(LowerLetters) \cup Range(UpperLetters)
IsDigit(c) == c \in Range(DigitChars)
\* str.isspace / regex \s
SpaceChars == {" ", "\t", "\n", "\r"}
IsSpace(c) == c \in SpaceChars
\* regex \w
WordChars == Range(LowerLetters) \cup Range(UpperLetters) \cup Range(DigitChars) \cup {"_"}

LowerChar(c) ==
    IF c \in Range(UpperLetters)
    THEN LowerLetters[CHOOSE i \in 1..26 : UpperLetters[i] = c]
    ELSE c

RECURSIVE Lower(_)
\* s.lower()
Lower(s) == IF Len(s) = 0 THEN "" ELSE LowerChar(CharAt(s, 1)) \o Lower(DropFirst(s, 1))

RECURSIVE Replace(_, _, _)
\* re.sub('[chars]', repl, s) and s.replace(c, repl): every character of s
\* that is in chars replaced by repl.
Replace(chars, repl, s) ==
    IF Len(s) = 0 THEN ""
    ELSE IF Len(s) = 1 THEN (IF s \in chars THEN repl ELSE s)
    ELSE LET half == Len(s) \div 2
         IN  Replace(chars, repl, SubSeq(s, 1, half))
             \o Replace(chars, repl, DropFirst(s, half))

RECURSIVE ReplaceOthers(_, _, _)
\* re.sub('[^chars]', repl, s): every character of s that is not in chars
\* replaced by repl.
ReplaceOthers(chars, repl, s) ==
    IF Len(s) = 0 THEN ""
    ELSE IF Len(s) = 1 THEN (IF s \in chars THEN s ELSE repl)
    ELSE LET half == Len(s) \div 2
         IN  ReplaceOthers(chars, repl, SubSeq(s, 1, half))
             \o ReplaceOthers(chars, repl, DropFirst(s, half))

RECURSIVE LStrip(_)
LStrip(s) == IF Len(s) > 0 /\ IsSpace(CharAt(s, 1)) THEN LStrip(DropFirst(s, 1)) ELSE s

RECURSIVE RStrip(_)
RStrip(s) ==
    IF Len(s) > 0 /\ IsSpace(CharAt(s, Len(s))) THEN RStrip(SubSeq(s, 1, Len(s) - 1)) ELSE s

\* s.strip()
Strip(s) == RStrip(LStrip(s))

\* Index of the first character of s that is in chars, 0 when there is none.
FirstIndex(chars, s) ==
    IF \E i \in 1..Len(s) : CharAt(s, i) \in chars
    THEN CHOOSE i \in 1..Len(s) :
             CharAt(s, i) \in chars /\ \A j \in 1..(i - 1) : CharAt(s, j) \notin chars
    ELSE 0

RECURSIVE SplitOn(_, _)
\* s.split(sep) for a one-character separator: the fields, empty ones kept.
SplitOn(s, sep) ==
    LET i == FirstIndex({sep}, s)
    IN  IF i = 0 THEN <<s>>
        ELSE <<SubSeq(s, 1, i - 1)>> \o SplitOn(DropFirst(s, i), sep)

RECURSIVE SplitWs(_)
\* s.split(): the maximal runs of non-whitespace characters.
SplitWs(s) ==
    LET t == LStrip(s)
        i == FirstIndex(SpaceChars, t)
    IN  IF Len(t) = 0 THEN << >>
        ELSE IF i = 0 THEN <<t>>
        ELSE <<SubSeq(t, 1, i - 1)>> \o SplitWs(DropFirst(t, i))

RECURSIVE Join(_, _)
\* sep.join(parts)
Join(sep, parts) ==
    IF Len(parts) = 0 THEN ""
    ELSE IF Len(parts) = 1 THEN parts[1]
    ELSE parts[1] \o sep \o Join(sep, Tail(parts))

RECURSIVE Str(_)
\* str(n) for a natural number n
Str(n) == IF n < 10 THEN DigitChars[n + 1] ELSE Str(n \div 10) \o DigitChars[(n % 10) + 1]

(***************************************************************************)
(* Python values that may be None: None, or Some(v) wrapping v.  A         *)
(* dictionary is a function whose DOMAIN is the set of keys present.       *)
(***************************************************************************)
None == [none |-> TRUE]
Some(v) == [none |-> FALSE, v |-> v]

\* d.get(k, default)
Get(d, k, default) == IF k \in DOMAIN d THEN d[k] ELSE default

\* d.get(k)
GetOrNone(d, k) == Get(d, k, None)

\* Truth value of an optional string / an optional integer.
TruthyStr(x) == ~x.none /\ x.v # ""
TruthyInt(x) == ~x.none /\ x.v # 0

(***************************************************************************)
(* utils.py                                                                *)
(***************************************************************************)
IsSchemeChar(c) == IsLetter(c) \/ IsDigit(c) \/ c \in {"+", "-", "."}

\* urllib.parse.urlparse, as far as scheme and netloc: the scheme is the text
\* before the first ':' when it starts with a letter and holds scheme
\* characters only; the netloc follows a leading '//' of the rest and ends
\* at the first of '/', '?', '#'.
urlparse(url) ==
    LET u      == LStrip(url)
        colon  == FirstIndex({":"}, u)
        head   == SubSeq(u, 1, colon - 1)
        hasSch == /\ colon > 1
                  /\ IsLetter(CharAt(u, 1))
                  /\ \A i \in 1..Len(head) : IsSchemeChar(CharAt(head, i))
        rest   == IF hasSch THEN DropFirst(u, colon) ELSE u
        after  == DropFirst(rest, 2)
        delim  == FirstIndex({"/", "?", "#"}, after)
    IN  [scheme |-> IF hasSch THEN Lower(head) ELSE "",
         netloc |-> IF StartsWith(rest, "//")
                    THEN (IF delim = 0 THEN after ELSE SubSeq(after, 1, delim - 1))
                    ELSE ""]

is_valid_url(url) ==
    LET result == urlparse(url)
    IN  result.scheme # "" /\ result.netloc # ""

youtube_domains == {"youtube.com", "youtu.be", "www.youtube.com", "m.youtube.com"}

is_youtube_url(url) ==
    LET domain == Lower(urlparse(url).netloc)
    IN  \E yt_domain \in youtube_domains : Contains(domain, yt_domain)

ForbiddenChars == {"<", ">", ":", "\"", "/", "\\", "|", "?", "*"}

SanitizeMaxLen == 200

\* sanitize_filename cutting to 200 characters first.
sanitize_filename_cut_first(filename) ==
    Join(" ", SplitWs(Replace(ForbiddenChars, "_", Truncate(filename, SanitizeMaxLen))))

sanitize_filename(filename) ==
    LET replaced == Replace(ForbiddenChars, "_", filename)
    IN  Truncate(Join(" ", SplitWs(replaced)), SanitizeMaxLen)

\* format_duration(seconds), seconds an optional integer
format_duration(seconds) ==
    IF seconds.none THEN "Unknown"
    ELSE LET hours   == seconds.v \div 3600
             minutes == (seconds.v % 3600) \div 60
             secs    == seconds.v % 60
         IN  IF hours > 0 THEN Str(hours) \o "h " \o Str(minutes) \o "m " \o Str(secs) \o "s"
             ELSE IF minutes > 0 THEN Str(minutes) \o "m " \o Str(secs) \o "s"
             ELSE Str(secs) \o "s"

(***************************************************************************)
(* batch.py                                                                *)
(***************************************************************************)
video_platforms ==
    {"youtube.com", "youtu.be", "vimeo.com", "dailymotion.com", "twitch.tv", "tiktok.com",
     "instagram.com", "facebook.com", "twitter.com", "x.com", "rumble.com", "bitchute.com"}

is_video_url(url) ==
    /\ is_valid_url(url)
    /\ LET domain == Lower(urlparse(url).netloc)
       IN  \E platform \in video_platforms : Contains(domain, platform)

RECURSIVE KeepValid(_)
\* The loop of parse_url_list: each line stripped, kept when non-empty and valid.
KeepValid(lines) ==
    IF Len(lines) = 0 THEN << >>
    ELSE LET line == Strip(Head(lines))
         IN  (IF line # "" /\ is_valid_url(line) THEN <<line>> ELSE << >>)
             \o KeepValid(Tail(lines))

\* parse_url_list dropping the repeats, the way the webpage extractor does.
parse_url_list_dedup(url_list_text) ==
    LET all == KeepValid(SplitOn(Replace({","}, "\n", url_list_text), "\n"))
        first[k \in 0..Len(all)] ==
            IF k = 0 THEN << >>
            ELSE IF \E j \in 1..(k - 1) : all[j] = all[k] THEN first[k - 1]
            ELSE Append(first[k - 1], all[k])
    IN  first[Len(all)]

parse_url_list(url_list_text) ==
    LET replaced == Replace({","}, "\n", url_list_text)
    IN  KeepValid(SplitOn(replaced, "\n"))

UploaderMaxLen == 20
TitleMaxLen == 50

\* The uploader part of suggest_filename.
UploaderParts(uploader) ==
    IF TruthyStr(uploader) /\ Lower(uploader.v) # "unknown"
    THEN <<Truncate(uploader.v, UploaderMaxLen)>>
    ELSE << >>

\* The title part of suggest_filename.
TitleParts(title) ==
    IF TruthyStr(title) /\ Lower(title.v) # "unknown"
    THEN LET stripped    == ReplaceOthers(WordChars \cup SpaceChars \cup {"-"}, "", title.v)
             clean_title == Join(" ", SplitWs(stripped))
         IN  <<Truncate(clean_title, TitleMaxLen)>>
    ELSE << >>

\* The duration part of suggest_filename.
DurationParts(duration) ==
    IF TruthyInt(duration) /\ duration.v > 0
    THEN LET minutes == duration.v \div 60
         IN  IF minutes > 60
             THEN <<Str(minutes \div 60) \o "h" \o Str(minutes % 60) \o "m">>
             ELSE <<Str(minutes) \o "m">>
    ELSE << >>

\* suggest_filename without its fallback (lines 153-155 left out).
suggest_filename_nofallback(video_info) ==
    Join(" - ", UploaderParts(Get(video_info, "uploader", Some("unknown")))
                \o TitleParts(Get(video_info, "title", Some("unknown")))
                \o DurationParts(Get(video_info, "duration", Some(0))))

suggest_filename(video_info) ==
    LET title          == Get(video_info, "title", Some("unknown"))
        uploader       == Get(video_info, "uploader", Some("unknown"))
        duration       == Get(video_info, "duration", Some(0))
        filename_parts == UploaderParts(uploader) \o TitleParts(title) \o DurationParts(duration)
        suggested_name == Join(" - ", filename_parts)
    IN  IF suggested_name = "" \/ Strip(suggested_name) = ""
        THEN "video_download"
        ELSE suggested_name

(***************************************************************************)
(* How a call ends: it returns a value, or an exception leaves it.         *)
(***************************************************************************)
Return(v) == [raised |-> FALSE, value |-> v]
Raise(e) == [raised |-> TRUE, error |-> e]

(***************************************************************************)
(* downloader.py.  The media collaborator (yt_dlp) is the environment: a   *)
(* call to it completes ("ok") or faults with an Exception whose str() is  *)
(* err.  A KeyboardInterrupt is no Exception and is the Interrupt action.  *)
(***************************************************************************)
DefaultDownloadPath == "./downloads"

\* The attributes of class VideoDownloader that can be called.
VideoDownloaderMethods ==
    {"get_video_info", "get_available_formats", "download_video",
     "download_subtitles", "download_thumbnail"}

\* ydl_opts of download_video: the output template and the format requested.
download_video_opts(download_path, format_id, audio_only, custom_filename) ==
    [outtmpl |-> IF TruthyStr(custom_filename)
                 THEN download_path \o "/" \o sanitize_filename(custom_filename.v) \o ".%(ext)s"
                 ELSE download_path \o "/" \o "%(title)s.%(ext)s",
     format  |-> IF audio_only THEN "bestaudio/best"
                 ELSE IF TruthyStr(format_id) THEN format_id.v
                 ELSE "best"]

\* download_video without its except clause: the fault leaves the call.
download_video_nocatch(download_path, oc, err) ==
    IF oc = "ok"
    THEN Return([success |-> TRUE, message |-> "Download completed successfully!",
                 path |-> download_path])
    ELSE Raise("DownloadError")

\* The try/except of download_video around the collaborator call.
download_video(download_path, oc, err) ==
    IF oc = "ok"
    THEN Return([success |-> TRUE, message |-> "Download completed successfully!",
                 path |-> download_path])
    ELSE Return([success |-> FALSE, error |-> err, message |-> "Download failed: " \o err])

download_subtitles(download_path, oc, err) ==
    IF oc = "ok"
    THEN Return([success |-> TRUE, message |-> "Subtitles downloaded successfully!",
                 path |-> download_path])
    ELSE Return([success |-> FALSE, error |-> err,
                 message |-> "Subtitle download failed: " \o err])

download_thumbnail(download_path, oc, err) ==
    IF oc = "ok"
    THEN Return([success |-> TRUE, message |-> "Thumbnail downloaded successfully!",
                 path |-> download_path])
    ELSE Return([success |-> FALSE, error |-> err,
                 message |-> "Thumbnail download failed: " \o err])

\* get_video_info: the metadata, or None when the collaborator faults.
get_video_info(oc, info) == IF oc = "ok" THEN Return(Some(info)) ELSE Return(None)

(***************************************************************************)
(* ai_agent.py.  The conversational collaborator completes with a text or  *)
(* faults.  The canned texts are abbreviated to their first words and the  *)
(* values formatted into them.                                             *)
(***************************************************************************)
RECURSIVE Thousands(_)
\* f"{n:,}" for a natural number n
Thousands(n) ==
    IF n < 1000 THEN Str(n)
    ELSE LET low == n % 1000
         IN  Thousands(n \div 1000) \o ","
             \o (IF low < 10 THEN "00" ELSE IF low < 100 THEN "0" ELSE "") \o Str(low)

\* f"{view_count:,}": None has no ',' format.
FormatThousands(view_count) ==
    IF view_count.none THEN Raise("TypeError") ELSE Return(Thousands(view_count.v))

Platform(url) == IF is_youtube_url(url) THEN "YouTube" ELSE "this platform"

fallback_greeting(url) ==
    Return("Hello! I'm ClipGenius. I see you want to download from " \o Platform(url))

\* _fallback_video_summary reading video_info['view_count'] and
\* video_info['title'] instead of using get: KeyError when the key is missing.
fallback_video_summary_indexed(video_info) ==
    IF {"title", "view_count"} \subseteq DOMAIN video_info
    THEN Return("Video Details: Title: " \o video_info.title.v
                \o " Views: " \o Thousands(video_info.view_count.v) \o " views")
    ELSE Raise("KeyError")

fallback_video_summary(video_info) ==
    LET title      == Get(video_info, "title", Some("Unknown"))
        uploader   == Get(video_info, "uploader", Some("Unknown"))
        duration   == format_duration(GetOrNone(video_info, "duration"))
        view_count == FormatThousands(Get(video_info, "view_count", Some(0)))
        Show(x)    == IF x.none THEN "None" ELSE x.v
    IN  IF view_count.raised THEN view_count
        ELSE Return("Video Details: Title: " \o Show(title) \o " Channel: " \o Show(uploader)
                    \o " Duration: " \o duration \o " Views: " \o view_count.value \o " views")

fallback_preferences_question == Return("Let me know your preferences:")

fallback_error_solution(error_message) ==
    Return("Oops! Something went wrong: " \o error_message)

fallback_resources_offer == Return("Great job! Your download is complete!")

\* The shape shared by the five operations: without a client the fallback;
\* otherwise the try block (building the prompt, then the collaborator call),
\* and on any Exception of it the fallback.  prompt is how building the
\* prompt ends, reply the collaborator's text, fallback how the fallback ends.
AICall(available, prompt, oc, reply, fallback) ==
    IF ~available THEN [outcome |-> fallback, source |-> "fallback"]
    ELSE IF ~prompt.raised /\ oc = "ok"
         THEN [outcome |-> Return(Strip(reply)), source |-> "ai"]
         ELSE [outcome |-> fallback, source |-> "fallback"]

greet_user(available, oc, reply, url) ==
    AICall(available, Return(Platform(url)), oc, reply, fallback_greeting(url))

summarize_video_metadata(available, oc, reply, video_info) ==
    AICall(available, FormatThousands(Get(video_info, "view_count", Some(0))), oc, reply,
           fallback_video_summary(video_info))

ask_about_preferences(available, oc, reply) ==
    AICall(available, Return(""), oc, reply, fallback_preferences_question)

suggest_error_solution(available, oc, reply, error_message, url) ==
    AICall(available, Return(error_message \o url), oc, reply,
           fallback_error_solution(error_message))

offer_related_resources(available, oc, reply, video_info) ==
    AICall(available, Return(""), oc, reply, fallback_resources_offer)

(***************************************************************************)
(* cli.py: the prompts.  get_user_input strips what the user typed.        *)
(***************************************************************************)
get_user_input(typed) == Strip(typed)

\* answer.lower().startswith('y')
Yes(answer) == StartsWith(Lower(answer), "y")

\* run_batch_mode, lines 338-343: the brief information shown for an entry.
\* None has no slice.
brief_video_info(video_info) ==
    LET title    == Get(video_info, "title", Some("Unknown"))
        duration == Get(video_info, "duration", Some(0))
        duration_str == IF TruthyInt(duration)
                        THEN Str(duration.v \div 60) \o "m " \o Str(duration.v % 60) \o "s"
                        ELSE "Unknown"
    IN  IF title.none THEN Raise("TypeError")
        ELSE Return("Title: " \o Truncate(title.v, 50) \o " Duration: " \o duration_str)

\* get_download_preferences, after its prompts: typed holds the answers.
get_download_preferences(typed, video_info) ==
    LET format_choice == Lower(get_user_input(typed.format))
        audio_only    == StartsWith(format_choice, "audio") \/ StartsWith(format_choice, "a")
        quality       == get_user_input(typed.quality)
        custom_name   == get_user_input(typed.custom_name)
        has_info      == ~video_info.none /\ DOMAIN video_info.v # {}
        suggested     == suggest_filename(video_info.v)
        final_name    == IF custom_name = "" /\ has_info /\ Yes(get_user_input(typed.use_suggested))
                         THEN suggested ELSE custom_name
    IN  (IF audio_only THEN <<>>
         ELSE ("quality" :> (IF quality # "" THEN quality ELSE "best")))
        @@ [audio_only      |-> audio_only,
            subtitles       |-> Yes(get_user_input(typed.subtitles)),
            thumbnail       |-> Yes(get_user_input(typed.thumbnail)),
            custom_filename |-> IF final_name # "" THEN Some(final_name) ELSE None]

\* The preferences of quick mode, from the command line options.
quick_preferences(audio_only, quality) ==
    [audio_only |-> audio_only, quality |-> quality, subtitles |-> FALSE,
     thumbnail |-> FALSE, custom_filename |-> None]

\* batch_prefs of run_batch_mode, after its prompts.
batch_preferences(typed) ==
    LET audio_only == Yes(get_user_input(typed.format))
        quality    == get_user_input(typed.quality)
    IN  (IF audio_only THEN <<>>
         ELSE ("quality" :> (IF quality # "" THEN quality ELSE "best")))
        @@ [audio_only |-> audio_only,
            subtitles  |-> Yes(get_user_input(typed.subtitles)),
            thumbnails |-> Yes(get_user_input(typed.thumbnail))]

\* The arguments perform_download and the batch loop pass to download_video.
download_video_args(preferences) ==
    [format_id       |-> None,
     audio_only      |-> Get(preferences, "audio_only", FALSE),
     custom_filename |-> Get(preferences, "custom_filename", None)]

\* main with every handler exiting 0.
main_except_zero(exception) == 0

\* The handlers of main: the exit code for what reached them.
main_except(exception) == IF exception = "KeyboardInterrupt" THEN 0 ELSE 1

(***************************************************************************)
(* The environment the runs are drawn from.                                *)
(***************************************************************************)
\* Files that exist (os.path.isfile) and their text.
FileSystem ==
    [x \in {"urls.txt", "empty.txt"} |->
        IF x = "urls.txt" THEN "https://youtu.be/a\nnot a url, https://vimeo.com/1 " ELSE "\n"]

\* What the page fetched by the webpage extractor holds: the anchor targets
\* and frame sources resolved against the page, and the matches of the
\* five patterns in its text.
WebPage ==
    [links   |-> {"https://youtu.be/a", "https://example.com/about"},
     iframes |-> {"https://player.vimeo.com/video/1"},
     text    |-> {"https://youtu.be/a"}]

EmptyPage == [links |-> {}, iframes |-> {}, text |-> {}]

\* What --batch names: a file, a URL list given in place, a page.
BatchSources == {"urls.txt", "empty.txt", " https://youtu.be/a,", "https://example.com/page"}

\* --batch with and without --batch-webpage.
BatchRuns ==
    {bw \in BatchSources \X BOOLEAN : bw[2] => bw[1] \in {"empty.txt", "https://example.com/page"}}

SingleUrls == {"https://youtu.be/a", "notaurl"}

DownloadPaths == {DefaultDownloadPath, "/tmp/out"}

Qualities == {"best", "720p"}

ArgsSet ==
    {[url |-> "", batch |-> "", batch_webpage |-> FALSE, no_ai |-> FALSE,
      audio_only |-> FALSE, quality |-> "best", download_path |-> DefaultDownloadPath]}
    \cup
    {[url |-> u, batch |-> "", batch_webpage |-> FALSE, no_ai |-> TRUE,
      audio_only |-> a, quality |-> q, download_path |-> p] :
        u \in SingleUrls, a \in BOOLEAN, q \in Qualities, p \in DownloadPaths}
    \cup
    {[url |-> u, batch |-> "", batch_webpage |-> FALSE, no_ai |-> FALSE,
      audio_only |-> FALSE, quality |-> "best", download_path |-> p] :
        u \in SingleUrls, p \in DownloadPaths}
    \cup
    {[url |-> "", batch |-> bw[1], batch_webpage |-> bw[2], no_ai |-> FALSE,
      audio_only |-> FALSE, quality |-> "best", download_path |-> p] :
        bw \in BatchRuns, p \in DownloadPaths}

\* Metadata the media collaborator returns.  Its optional fields are missing
\* or None when a site does not give them; a title, when present, is text.
Infos ==
    {[title |-> Some("Amazing Video!! #1"),
      uploader |-> Some("Joe Blow Channel Extra Long Name Here"),
      duration |-> Some(125), view_count |-> Some(1234567)],
     [title |-> Some("Live"), uploader |-> None, duration |-> None, view_count |-> None],
     [title |-> Some("Talk"), duration |-> Some(3600)]}

\* str(e) of the collaborator's exceptions.
ErrTexts == {"", "HTTP Error 403: Forbidden"}

Outcomes == {"ok", "fault"}

\* What the conversational collaborator answers.
Replies == {" Sure, happy to help! "}

YesNo == {"Yes", "no"}

TypedPreferences ==
    [format : {"video", "Audio"}, quality : {"", "720p"}, subtitles : YesNo,
     thumbnail : YesNo, custom_name : {"", "my:clip"}, use_suggested : YesNo]

TypedBatch ==
    [format : YesNo, quality : {"", "720p"}, subtitles : YesNo, thumbnail : YesNo]

\* list(S): the elements of a set in some order.
Orderings(S) == {q \in [1..Cardinality(S) -> S] : Range(q) = S}

\* extract_video_urls_from_webpage with the three passes kept as lists
\* and appended, no set in between.
extract_video_urls_appended(oc, page) ==
    IF oc = "fault" THEN {<< >>}
    ELSE {a \o b \o c :
             a \in Orderings({u \in page.links : is_video_url(u)}),
             b \in Orderings({u \in page.iframes : is_video_url(u)}),
             c \in Orderings({u \in page.text : is_video_url(u)})}

\* extract_video_urls_from_webpage: the lists it may return.  oc is how the
\* fetch ends, page what the fetched page holds.
extract_video_urls_from_webpage(oc, page) ==
    IF oc = "fault" THEN {<< >>}
    ELSE LET video_urls == {u \in page.links : is_video_url(u)}
                           \cup {u \in page.iframes : is_video_url(u)}
                           \cup page.text
             valid_urls == {u \in video_urls : is_valid_url(u) /\ is_video_url(u)}
         IN  Orderings(valid_urls)

(***************************************************************************)
(* The state.                                                              *)
(***************************************************************************)
VARIABLES
    args,                  \* the command line of the run
    api_key,               \* whether OPENAI_API_KEY is set
    pc,                    \* where the run is
    exit_code,             \* the process exit code (-1 while running)
    exit_via,              \* "return", "sys_exit", "KeyboardInterrupt", "Exception"
    exit_at,               \* the step the run ended in
    download_path,         \* VideoDownloader.download_path
    dirs,                  \* the directories created so far
    ai_client,             \* AIAgent.client is not None
    conversation_history,  \* AIAgent.conversation_history
    current_url,           \* CLIInterface.current_url
    current_video_info,    \* CLIInterface.current_video_info
    preferences,           \* the preferences of the download in hand
    confirm,               \* the answer to "Proceed ...?", lower-cased
    urls,                  \* run_batch_mode: the URL list
    i,                     \* run_batch_mode: the loop index (1-based)
    batch_prefs,           \* run_batch_mode: the shared preferences
    successful,            \* run_batch_mode: counter
    failed,                \* run_batch_mode: counter
    calls,                 \* the calls made to the media collaborator, in order
    last_result,           \* how the last download_* call ended
    ai_last,               \* how the last AIAgent operation ended
    fn_arg,                \* argument of a function checked on its own
    fn_ret                 \* its result

vars ==
    <<args, api_key, pc, exit_code, exit_via, exit_at, download_path, dirs, ai_client,
      conversation_history, current_url, current_video_info, preferences, confirm,
      urls, i, batch_prefs, successful, failed, calls, last_result, ai_last, fn_arg, fn_ret>>

runVars == <<args, api_key, fn_arg, fn_ret>>
exitVars == <<exit_code, exit_via, exit_at>>
objVars == <<download_path, dirs, ai_client>>
batchVars == <<urls, i, batch_prefs, successful, failed>>

NoResult == [op |-> "none"]
NoAI == [op |-> "none"]

\* The state before main runs, shared by every specification.
Idle ==
    /\ exit_code = -1
    /\ exit_via = ""
    /\ exit_at = ""
    /\ download_path = ""
    /\ dirs = {}
    /\ ai_client = FALSE
    /\ conversation_history = << >>
    /\ current_url = None
    /\ current_video_info = None
    /\ preferences = << >>
    /\ confirm = ""
    /\ urls = << >>
    /\ i = 0
    /\ batch_prefs = << >>
    /\ successful = 0
    /\ failed = 0
    /\ calls = << >>
    /\ last_result = NoResult
    /\ ai_last = NoAI

Init ==
    /\ args \in ArgsSet
    /\ api_key \in (IF args.batch # "" THEN {FALSE} ELSE BOOLEAN)
    /\ pc = "main"
    /\ fn_arg = << >>
    /\ fn_ret = ""
    /\ Idle

\* The run goes on at step next.
Goto(next) == pc' = next /\ UNCHANGED exitVars

\* sys.exit(code), or the return of main (code 0).
Exit(code, via) ==
    /\ pc' = "exited"
    /\ exit_code' = code
    /\ exit_via' = via
    /\ exit_at' = pc

\* An exception reaches the handlers of main.
Uncaught(exception) ==
    Exit(main_except(exception),
         IF exception = "KeyboardInterrupt" THEN exception ELSE "Exception")

\* A call to the media collaborator and how it ended.
Call(op, url, entry, format, outtmpl, oc) ==
    [op |-> op, url |-> url, entry |-> entry, format |-> format, outtmpl |-> outtmpl,
     oc |-> oc]

\* An AIAgent operation was called and ended as r; a reply is remembered.
AIDone(op, oc, r) ==
    /\ ai_last' = [op |-> op, available |-> ai_client, oc |-> oc,
                   raised |-> r.outcome.raised, source |-> r.source]
    /\ conversation_history' =
           IF r.source = "ai" /\ ~r.outcome.raised
           THEN Append(conversation_history, r.outcome.value)
           ELSE conversation_history

(***************************************************************************)
(* main, lines 415-428: the arguments, the objects, the download path.     *)
(***************************************************************************)
MainStart ==
    /\ pc = "main"
    /\ IF args.url = "" /\ args.batch = ""
       THEN /\ Exit(1, "sys_exit")
            /\ UNCHANGED objVars
       ELSE LET custom  == args.download_path # DefaultDownloadPath
                callable == "ensure_directory" \in VideoDownloaderMethods
            IN  /\ ai_client' = api_key
                /\ download_path' = IF custom THEN args.download_path ELSE DefaultDownloadPath
                /\ dirs' = dirs \cup {DefaultDownloadPath}
                              \cup (IF custom /\ callable THEN {args.download_path} ELSE {})
                /\ IF custom /\ ~callable THEN Uncaught("AttributeError")
                   ELSE IF args.batch # "" THEN Goto("batch_extract")
                   ELSE IF args.no_ai THEN Goto("quick_validate")
                   ELSE Goto("inter_validate")
    /\ UNCHANGED <<runVars, confirm, conversation_history, current_url, current_video_info,
                   preferences, batchVars, calls, last_result, ai_last>>

\* A user interrupt: KeyboardInterrupt passes every "except Exception" and
\* reaches main's handler, wherever the run is.
Interrupt ==
    /\ pc # "exited"
    /\ Uncaught("KeyboardInterrupt")
    /\ UNCHANGED <<runVars, confirm, objVars, conversation_history, current_url, current_video_info,
                   preferences, batchVars, calls, last_result, ai_last>>

\* The conversational collaborator is called only when there is a client.
AIOutcomes == IF ai_client THEN Outcomes ELSE {"not called"}

\* "if not x" for an optional dictionary / an optional string.
Falsy(x) == x.none \/ (DOMAIN x.v = {})
NoUrl(x) == x.none \/ x.v = ""

\* validate_url setting current_url only while there is none.
validate_url_once(url, current) ==
    IF is_valid_url(url) /\ current.none THEN Some(url) ELSE current

\* validate_url: what current_url becomes (unchanged when the URL is invalid).
validate_url(url, current) == IF is_valid_url(url) THEN Some(url) ELSE current

(***************************************************************************)
(* main, lines 445-465: quick mode.                                        *)
(***************************************************************************)
QuickValidate ==
    /\ pc = "quick_validate"
    /\ current_url' = validate_url(args.url, current_url)
    /\ IF is_valid_url(args.url) THEN Goto("quick_analyze") ELSE Exit(1, "sys_exit")
    /\ UNCHANGED <<runVars, confirm, objVars, conversation_history, current_video_info,
                   preferences, batchVars, calls, last_result, ai_last>>

QuickAnalyze ==
    /\ pc = "quick_analyze"
    /\ \E oc \in Outcomes, info \in Infos :
          LET r == get_video_info(oc, info)
          IN  /\ ~NoUrl(current_url)
              /\ calls' = Append(calls, Call("get_video_info", current_url.v, 0, "", "", oc))
              /\ current_video_info' = r.value
              /\ IF Falsy(r.value)
                 THEN Exit(1, "sys_exit") /\ UNCHANGED preferences
                 ELSE /\ preferences' = quick_preferences(args.audio_only, args.quality)
                      /\ Goto("perform_main")
    /\ UNCHANGED <<runVars, confirm, objVars, conversation_history, current_url,
                   batchVars, last_result, ai_last>>

(***************************************************************************)
(* run_interactive_mode, lines 229-277, and its return to main (468-470).  *)
(***************************************************************************)
InterValidate ==
    /\ pc = "inter_validate"
    /\ current_url' = validate_url(args.url, current_url)
    /\ IF is_valid_url(args.url) THEN Goto("inter_greet") ELSE Exit(1, "sys_exit")
    /\ UNCHANGED <<runVars, confirm, objVars, conversation_history, current_video_info,
                   preferences, batchVars, calls, last_result, ai_last>>

InterGreet ==
    /\ pc = "inter_greet"
    /\ \E oc \in AIOutcomes, reply \in Replies :
          LET r == greet_user(ai_client, oc, reply, args.url)
          IN  /\ AIDone("greet_user", oc, r)
              /\ IF r.outcome.raised THEN Uncaught(r.outcome.error)
                 ELSE Goto("inter_analyze")
    /\ UNCHANGED <<runVars, confirm, objVars, current_url, current_video_info,
                   preferences, batchVars, calls, last_result>>

InterAnalyze ==
    /\ pc = "inter_analyze"
    /\ \E oc \in Outcomes, info \in Infos :
          LET r == get_video_info(oc, info)
          IN  /\ ~NoUrl(current_url)
              /\ calls' = Append(calls, Call("get_video_info", current_url.v, 0, "", "", oc))
              /\ current_video_info' = r.value
              /\ IF Falsy(r.value) THEN Exit(1, "sys_exit") ELSE Goto("inter_summary")
    /\ UNCHANGED <<runVars, confirm, objVars, conversation_history, current_url, preferences,
                   batchVars, last_result, ai_last>>

\* show_video_summary
InterSummary ==
    /\ pc = "inter_summary"
    /\ \E oc \in AIOutcomes, reply \in Replies :
          LET r == summarize_video_metadata(ai_client, oc, reply, current_video_info.v)
          IN  /\ AIDone("summarize_video_metadata", oc, r)
              /\ IF r.outcome.raised THEN Uncaught(r.outcome.error)
                 ELSE Goto("inter_formats")
    /\ UNCHANGED <<runVars, confirm, objVars, current_url, current_video_info,
                   preferences, batchVars, calls, last_result>>

\* "Would you like to see available formats?" and show_available_formats,
\* which asks the collaborator for the metadata once more.
InterFormats ==
    /\ pc = "inter_formats"
    /\ \E typed \in YesNo, oc \in Outcomes :
          /\ ~Yes(get_user_input(typed)) => oc = "ok"
          /\ calls' = IF Yes(get_user_input(typed))
                      THEN Append(calls, Call("get_available_formats", current_url.v, 0,
                                              "", "", oc))
                      ELSE calls
    /\ Goto("inter_prefs")
    /\ UNCHANGED <<runVars, confirm, objVars, conversation_history, current_url, current_video_info,
                   preferences, batchVars, last_result, ai_last>>

\* get_download_preferences
InterPrefs ==
    /\ pc = "inter_prefs"
    /\ \E oc \in AIOutcomes, reply \in Replies, typed \in TypedPreferences :
          LET r == ask_about_preferences(ai_client, oc, reply)
          IN  /\ AIDone("ask_about_preferences", oc, r)
              /\ IF r.outcome.raised
                 THEN Uncaught(r.outcome.error) /\ UNCHANGED preferences
                 ELSE /\ preferences' = get_download_preferences(typed, current_video_info)
                      /\ Goto("inter_confirm")
    /\ UNCHANGED <<runVars, confirm, objVars, current_url, current_video_info,
                   batchVars, calls, last_result>>

\* "Proceed with download?"
InterConfirm ==
    /\ pc = "inter_confirm"
    /\ \E typed \in YesNo :
          /\ confirm' = Lower(get_user_input(typed))
          /\ IF StartsWith(confirm', "y") THEN Goto("perform_main") ELSE Exit(1, "sys_exit")
    /\ UNCHANGED <<runVars, objVars, conversation_history, current_url, current_video_info,
                   preferences, batchVars, calls, last_result, ai_last>>

(***************************************************************************)
(* perform_download, lines 181-227.                                        *)
(***************************************************************************)
\* The subtitles attempted whatever the preferences say.
AfterMain_always_subtitles(prefs) == "perform_subs"

\* The step after the main download succeeded (lines 196-219).
AfterMain(prefs) ==
    IF Get(prefs, "subtitles", FALSE) THEN "perform_subs"
    ELSE IF Get(prefs, "thumbnail", FALSE) THEN "perform_thumb"
    ELSE "perform_offer"

PerformMain ==
    /\ pc = "perform_main"
    /\ ~NoUrl(current_url)
    /\ \E oc \in Outcomes, err \in ErrTexts :
          LET a    == download_video_args(preferences)
              opts == download_video_opts(download_path, a.format_id, a.audio_only,
                                          a.custom_filename)
              r    == download_video(download_path, oc, err)
          IN  /\ oc = "ok" => err = ""
              /\ calls' = Append(calls, Call("download_video", current_url.v, 0,
                                             opts.format, opts.outtmpl, oc))
              /\ last_result' = [op |-> "download_video", oc |-> oc, outcome |-> r]
              /\ IF r.raised
                 THEN /\ Uncaught(r.error)
                      /\ UNCHANGED <<ai_last, conversation_history>>
                 ELSE IF r.value.success
                 THEN /\ Goto(AfterMain(preferences))
                      /\ UNCHANGED <<ai_last, conversation_history>>
                 ELSE \E aoc \in AIOutcomes, reply \in Replies :
                         LET s == suggest_error_solution(ai_client, aoc, reply,
                                                         r.value.error, current_url.v)
                         IN  /\ AIDone("suggest_error_solution", aoc, s)
                             /\ IF s.outcome.raised THEN Uncaught(s.outcome.error)
                                ELSE Goto("session_end")
    /\ UNCHANGED <<runVars, confirm, objVars, current_url, current_video_info, preferences,
                   batchVars>>

PerformSubtitles ==
    /\ pc = "perform_subs"
    /\ \E oc \in Outcomes, err \in ErrTexts :
          LET r == download_subtitles(download_path, oc, err)
          IN  /\ oc = "ok" => err = ""
              /\ calls' = Append(calls, Call("download_subtitles", current_url.v, 0, "", "", oc))
              /\ last_result' = [op |-> "download_subtitles", oc |-> oc, outcome |-> r]
              /\ IF r.raised THEN Uncaught(r.error)
                 ELSE IF Get(preferences, "thumbnail", FALSE) THEN Goto("perform_thumb")
                 ELSE Goto("perform_offer")
    /\ UNCHANGED <<runVars, confirm, objVars, conversation_history, current_url, current_video_info,
                   preferences, batchVars, ai_last>>

PerformThumbnail ==
    /\ pc = "perform_thumb"
    /\ \E oc \in Outcomes, err \in ErrTexts :
          LET r == download_thumbnail(download_path, oc, err)
          IN  /\ oc = "ok" => err = ""
              /\ calls' = Append(calls, Call("download_thumbnail", current_url.v, 0, "", "", oc))
              /\ last_result' = [op |-> "download_thumbnail", oc |-> oc, outcome |-> r]
              /\ IF r.raised THEN Uncaught(r.error) ELSE Goto("perform_offer")
    /\ UNCHANGED <<runVars, confirm, objVars, conversation_history, current_url, current_video_info,
                   preferences, batchVars, ai_last>>

\* "Additional Options": offer_related_resources
PerformOffer ==
    /\ pc = "perform_offer"
    /\ \E oc \in AIOutcomes, reply \in Replies :
          LET r == offer_related_resources(ai_client, oc, reply,
                       IF Falsy(current_video_info) THEN << >> ELSE current_video_info.v)
          IN  /\ AIDone("offer_related_resources", oc, r)
              /\ IF r.outcome.raised THEN Uncaught(r.outcome.error) ELSE Goto("session_end")
    /\ UNCHANGED <<runVars, confirm, objVars, current_url, current_video_info,
                   preferences, batchVars, calls, last_result>>

\* perform_download is over: run_interactive_mode returns True, and main
\* prints "ClipGenius session completed!" and returns (lines 277, 465-472).
SessionEnd ==
    /\ pc = "session_end"
    /\ Exit(0, "return")
    /\ UNCHANGED <<runVars, confirm, objVars, conversation_history, current_url, current_video_info,
                   preferences, batchVars, calls, last_result, ai_last>>

(***************************************************************************)
(* run_batch_mode, lines 279-385, and its call from main (430-443).        *)
(***************************************************************************)
\* NextEntry with a failure ending the loop (a break in place of continue).
NextEntry_break(idx, n) == "batch_summary"

\* The step after entry idx of n: the next entry of the for loop, or the summary.
NextEntry(idx, n) == IF idx < n THEN "batch_item" ELSE "batch_summary"

\* run_batch_mode returning True whatever the loop did.
batch_return_true(n_successful) == TRUE

\* What run_batch_mode returns after the loop.
batch_return(n_successful) == n_successful > 0

\* The confirmation ignored.
batch_confirmed_always(answer) == TRUE

\* "Proceed with batch download?": whether the answer lets the loop start.
batch_confirmed(answer) == StartsWith(answer, "y")

\* The sub-downloads left out: straight to the next entry.
AfterBatchMain_skip(prefs, idx, n) == NextEntry(idx, n)

\* The step after the main download of an entry succeeded.
AfterBatchMain(prefs, idx, n) ==
    IF Get(prefs, "subtitles", FALSE) THEN "batch_subs"
    ELSE IF Get(prefs, "thumbnails", FALSE) THEN "batch_thumb"
    ELSE NextEntry(idx, n)

\* Lines 430-439 and 286-302: the URL list, from a file, the text given or a page.
BatchExtract ==
    /\ pc = "batch_extract"
    /\ \E oc \in Outcomes, page \in {WebPage, EmptyPage} :
          LET is_file    == args.batch \in DOMAIN FileSystem
              is_webpage == ~is_file /\ args.batch_webpage
              found      == IF is_webpage THEN extract_video_urls_from_webpage(oc, page)
                            ELSE IF is_file THEN {parse_url_list(FileSystem[args.batch])}
                            ELSE {parse_url_list(args.batch)}
          IN  /\ ~is_webpage => (oc = "ok" /\ page = EmptyPage)
              /\ oc = "fault" => page = EmptyPage
              /\ \E list \in found :
                    /\ urls' = list
                    /\ IF Len(list) = 0 THEN Exit(1, "sys_exit") ELSE Goto("batch_prefs")
    /\ UNCHANGED <<runVars, confirm, objVars, conversation_history, current_url, current_video_info,
                   preferences, i, batch_prefs, successful, failed, calls, last_result,
                   ai_last>>

\* Lines 304-322: the shared preferences and the confirmation.
BatchPrefs ==
    /\ pc = "batch_prefs"
    /\ \E typed \in TypedBatch, answer \in YesNo :
          /\ batch_prefs' = batch_preferences(typed)
          /\ confirm' = Lower(get_user_input(answer))
          /\ IF batch_confirmed(confirm')
             THEN /\ i' = 1
                  /\ Goto("batch_item")
             ELSE /\ i' = i
                  /\ Exit(1, "sys_exit")
    /\ successful' = 0
    /\ failed' = 0
    /\ UNCHANGED <<runVars, objVars, conversation_history, current_url, current_video_info,
                   preferences, urls, calls, last_result, ai_last>>

\* The entry's preferences being the shared dictionary itself (no copy):
\* what is written for the entry is written to the shared preferences.
batch_prefs_aliased(shared, entry_prefs) == entry_prefs

\* preferences = batch_prefs.copy() (line 346): the shared preferences after
\* the entry's preferences were written to.
batch_prefs_after_copy(shared, entry_prefs) == shared

\* Lines 324-351: entry i is validated and analysed, its preferences built.
BatchAnalyze ==
    /\ pc = "batch_item"
    /\ \E oc \in Outcomes, info \in Infos :
          LET url     == urls[i]
              valid   == is_valid_url(url)
              cur     == validate_url(url, current_url)
              analyse == valid /\ ~NoUrl(cur)
              r       == get_video_info(oc, info)
              ok      == analyse /\ ~Falsy(r.value)
          IN  /\ ~analyse => (oc = "ok" /\ info = CHOOSE x \in Infos : TRUE)
              /\ oc = "fault" => info = CHOOSE x \in Infos : TRUE
              /\ current_url' = cur
              /\ calls' = IF analyse
                          THEN Append(calls, Call("get_video_info", cur.v, i, "", "", oc))
                          ELSE calls
              /\ current_video_info' = IF analyse THEN r.value ELSE current_video_info
              /\ IF ok /\ brief_video_info(r.value.v).raised
                 THEN /\ Uncaught("TypeError")
                      /\ UNCHANGED <<i, failed, preferences, batch_prefs>>
                 ELSE IF ok
                 THEN /\ preferences' = ("custom_filename" :> Some(suggest_filename(r.value.v)))
                                        @@ batch_prefs
                      /\ batch_prefs' = batch_prefs_after_copy(batch_prefs, preferences')
                      /\ Goto("batch_download")
                      /\ UNCHANGED <<i, failed>>
                 ELSE /\ failed' = failed + 1
                      /\ i' = i + 1
                      /\ Goto(NextEntry(i, Len(urls)))
                      /\ UNCHANGED <<preferences, batch_prefs>>
    /\ UNCHANGED <<runVars, confirm, objVars, conversation_history, urls, successful,
                   last_result, ai_last>>

\* Lines 353-362 and 374-376: the main download of entry i.
BatchDownload ==
    /\ pc = "batch_download"
    /\ \E oc \in Outcomes, err \in ErrTexts :
          LET a    == download_video_args(preferences)
              opts == download_video_opts(download_path, a.format_id, a.audio_only,
                                          a.custom_filename)
              r    == download_video(download_path, oc, err)
          IN  /\ oc = "ok" => err = ""
              /\ calls' = Append(calls, Call("download_video", current_url.v, i,
                                             opts.format, opts.outtmpl, oc))
              /\ last_result' = [op |-> "download_video", oc |-> oc, outcome |-> r]
              /\ IF r.raised
                 THEN Uncaught(r.error) /\ UNCHANGED <<i, successful, failed>>
                 ELSE IF r.value.success
                 THEN LET next == AfterBatchMain(preferences, i, Len(urls))
                      IN  /\ successful' = successful + 1
                          /\ i' = IF next \in {"batch_subs", "batch_thumb"} THEN i ELSE i + 1
                          /\ Goto(next)
                          /\ UNCHANGED failed
                 ELSE /\ failed' = failed + 1
                      /\ i' = i + 1
                      /\ Goto(NextEntry(i, Len(urls)))
                      /\ UNCHANGED successful
    /\ UNCHANGED <<runVars, confirm, objVars, conversation_history, current_url, current_video_info,
                   preferences, urls, batch_prefs, ai_last>>

\* Lines 365-368
BatchSubtitles ==
    /\ pc = "batch_subs"
    /\ \E oc \in Outcomes, err \in ErrTexts :
          LET r == download_subtitles(download_path, oc, err)
          IN  /\ oc = "ok" => err = ""
              /\ calls' = Append(calls, Call("download_subtitles", current_url.v, i, "", "", oc))
              /\ last_result' = [op |-> "download_subtitles", oc |-> oc, outcome |-> r]
              /\ IF r.raised THEN Uncaught(r.error) /\ i' = i
                 ELSE IF Get(preferences, "thumbnails", FALSE)
                 THEN Goto("batch_thumb") /\ i' = i
                 ELSE Goto(NextEntry(i, Len(urls))) /\ i' = i + 1
    /\ UNCHANGED <<runVars, confirm, objVars, conversation_history, current_url, current_video_info,
                   preferences, urls, batch_prefs, successful, failed, ai_last>>

\* Lines 370-373
BatchThumbnail ==
    /\ pc = "batch_thumb"
    /\ \E oc \in Outcomes, err \in ErrTexts :
          LET r == download_thumbnail(download_path, oc, err)
          IN  /\ oc = "ok" => err = ""
              /\ calls' = Append(calls, Call("download_thumbnail", current_url.v, i, "", "", oc))
              /\ last_result' = [op |-> "download_thumbnail", oc |-> oc, outcome |-> r]
              /\ IF r.raised THEN Uncaught(r.error) /\ i' = i
                 ELSE Goto(NextEntry(i, Len(urls))) /\ i' = i + 1
    /\ UNCHANGED <<runVars, confirm, objVars, conversation_history, current_url, current_video_info,
                   preferences, urls, batch_prefs, successful, failed, ai_last>>

\* Lines 378-385 and 441-443: the summary, and the exit code of the batch.
BatchSummary ==
    /\ pc = "batch_summary"
    /\ IF batch_return(successful) THEN Exit(0, "return") ELSE Exit(1, "sys_exit")
    /\ UNCHANGED <<runVars, confirm, objVars, conversation_history, current_url, current_video_info,
                   preferences, batchVars, calls, last_result, ai_last>>

Next ==
    \/ MainStart
    \/ Interrupt
    \/ QuickValidate
    \/ QuickAnalyze
    \/ InterValidate
    \/ InterGreet
    \/ InterAnalyze
    \/ InterSummary
    \/ InterFormats
    \/ InterPrefs
    \/ InterConfirm
    \/ PerformMain
    \/ PerformSubtitles
    \/ PerformThumbnail
    \/ PerformOffer
    \/ SessionEnd
    \/ BatchExtract
    \/ BatchPrefs
    \/ BatchAnalyze
    \/ BatchDownload
    \/ BatchSubtitles
    \/ BatchThumbnail
    \/ BatchSummary

Spec == Init /\ [][Next]_vars

(***************************************************************************)
(* suggest_filename on its own: the metadata drawn from a bounded set.     *)
(***************************************************************************)
\* Durations around the minute and the hour marks.
SuggestDurations ==
    {m * 60 + sec : m \in 0..(60 + MaxExtraMinutes), sec \in {0, 59}} \cup {7325}

\* Titles: punctuation, an underscore, runs of whitespace, more than 50
\* characters, nothing but punctuation, 'unknown', None.
SuggestTitles ==
    {Some("Amazing Video!! #1"), Some("Unknown"), Some("my_video:  part-2"), Some("!!!"),
     Some("The  quick brown fox jumps over the lazy dog, again\tand again!"), None}

SuggestUploaders ==
    {Some("Joe Blow Channel Extra Long Name Here"), Some("UNKNOWN"), Some(" "), None}

SuggestInfos ==
    {d @@ t @@ u :
        d \in {<< >>, [duration |-> None]} \cup {[duration |-> Some(x)] : x \in SuggestDurations},
        t \in {<< >>} \cup {[title |-> x] : x \in SuggestTitles},
        u \in {<< >>} \cup {[uploader |-> x] : x \in SuggestUploaders}}

InitSuggest ==
    /\ args = CHOOSE a \in ArgsSet : a.url = "" /\ a.batch = ""
    /\ api_key = FALSE
    /\ pc = "pure"
    /\ fn_arg \in SuggestInfos
    /\ fn_ret = ""
    /\ Idle

ApplySuggest ==
    /\ pc = "pure"
    /\ fn_ret' = suggest_filename(fn_arg)
    /\ pc' = "applied"
    /\ UNCHANGED <<args, api_key, fn_arg, exitVars, objVars, conversation_history,
                   current_url, current_video_info, preferences, confirm, batchVars, calls,
                   last_result, ai_last>>

NextSuggest == ApplySuggest

SpecSuggest == InitSuggest /\ [][NextSuggest]_vars

(***************************************************************************)
(* The claims.                                                             *)
(***************************************************************************)
SingleRun == args.url # "" /\ args.batch = ""
BatchRun == args.batch # ""

\* The main download of a single-URL run was made and returned success=false
\* (after it no other download is made, so last_result still holds it).
MainDownloadFailed ==
    /\ last_result.op = "download_video"
    /\ ~last_result.outcome.raised
    /\ ~last_result.outcome.value.success

\* The main download of a single-URL run was made and returned success=true.
MainDownloadSucceeded ==
    \E k \in DOMAIN calls : calls[k].op = "download_video" /\ calls[k].oc = "ok"

\* C1: a single-URL run (interactive or quick) whose main download returns
\* success=false ends with exit code 1, and exit code 0 is produced only
\* when the download succeeded or the run was interrupted.
C1_DownloadFailureExitsOne ==
    (SingleRun /\ pc = "exited") =>
        /\ (MainDownloadFailed /\ exit_via # "KeyboardInterrupt") => exit_code = 1
        /\ exit_code = 0 => (MainDownloadSucceeded \/ exit_via = "KeyboardInterrupt")

\* C2: started with an output directory other than './downloads', the run
\* creates that directory at startup, download_path becomes that directory,
\* and the run goes on to the validation and download steps: it does not
\* end in the startup step.
C2_CustomDirectoryCreated ==
    (/\ args.download_path # DefaultDownloadPath
     /\ (args.url # "" \/ args.batch # "")
     /\ pc # "main"
     /\ exit_via # "KeyboardInterrupt") =>
        /\ args.download_path \in dirs
        /\ download_path = args.download_path
        /\ exit_at # "main"

\* A step of the batch loop in which entry i ended in failure: its URL is
\* invalid or its analysis gave no metadata, or its download returned
\* success=false.
AnalysisFailed ==
    /\ pc = "batch_item"
    /\ exit_via' # "KeyboardInterrupt"
    /\ (~is_valid_url(urls[i]) \/ Falsy(current_video_info'))

DownloadFailed ==
    /\ pc = "batch_download"
    /\ exit_via' # "KeyboardInterrupt"
    /\ last_result'.op = "download_video"
    /\ ~last_result'.outcome.raised
    /\ ~last_result'.outcome.value.success

InLoop == pc \in {"batch_item", "batch_download", "batch_subs", "batch_thumb"}

\* The batch loop has been entered and every entry of the list is done.
LoopDone == i = Len(urls) + 1

\* What is left of the loop: the entries not yet done, four steps each
\* (analysis, download, subtitles, thumbnail), less the steps of entry i
\* that are behind.
StepsBehind ==
    IF pc = "batch_download" THEN 1
    ELSE IF pc = "batch_subs" THEN 2
    ELSE IF pc = "batch_thumb" THEN 3
    ELSE 0

StepsLeft == 4 * (Len(urls) + 1 - i) - StepsBehind

\* C3: in batch mode, once the loop has started, a failure of one URL
\* (validation, analysis, or download_video returning success=false) adds
\* exactly one to the failure counter and the loop goes on with the next
\* URL (the summary after the last).  Every URL of the list gets processed:
\* in the loop the entry in hand is an entry of the list, every step of the
\* loop brings the end of the list nearer, the summary is reached only with
\* the whole list done, and nothing but an interrupt leaves the loop early.
C3_FailureIsolated ==
    /\ [][/\ (AnalysisFailed \/ DownloadFailed) =>
               /\ failed' = failed + 1
               /\ successful' = successful
               /\ i' = i + 1
               /\ pc' = IF i < Len(urls) THEN "batch_item" ELSE "batch_summary"
          /\ (InLoop /\ exit_via' # "KeyboardInterrupt") =>
               /\ StepsLeft' < StepsLeft
               /\ InLoop' \/ (pc' = "batch_summary" /\ LoopDone')]_vars
    /\ [](InLoop => i \in 1..Len(urls))
    /\ [](i >= 1 /\ pc = "exited" /\ ~LoopDone => exit_via = "KeyboardInterrupt")

\* The first entry of a batch failed and the second was downloaded.
C3_Witness ==
    /\ pc = "exited"
    /\ exit_via = "return"
    /\ Len(urls) = 2
    /\ failed = 1
    /\ successful = 1
    /\ \E k \in DOMAIN calls :
          calls[k].op = "download_video" /\ calls[k].entry = 2 /\ calls[k].oc = "ok"

\* C4: download_video, download_subtitles and download_thumbnail never
\* raise when the collaborator call faults: each returns a result with
\* success=false, a non-empty message and an error detail; success=true is
\* returned only when the collaborator call completed.
C4_DownloadsNeverRaise ==
    last_result.op # "none" =>
        /\ ~last_result.outcome.raised
        /\ last_result.oc = "fault" =>
              /\ ~last_result.outcome.value.success
              /\ last_result.outcome.value.message # ""
              /\ "error" \in DOMAIN last_result.outcome.value
        /\ last_result.outcome.value.success => last_result.oc = "ok"

\* The collaborator faulted with an exception of empty text in a download.
C4_Witness ==
    /\ last_result.op = "download_video"
    /\ last_result.oc = "fault"
    /\ ~last_result.outcome.raised
    /\ last_result.outcome.value.error = ""

\* C5: every AIAgent operation returns a text and never raises: without an
\* API key, or when the conversational call faults, it returns the canned
\* fallback of the operation, and the CLI flow is not interrupted by it.
C5_AINeverRaises ==
    ai_last.op # "none" =>
        /\ ~ai_last.raised
        /\ (~ai_last.available \/ ai_last.oc = "fault") => ai_last.source = "fallback"
        /\ exit_via = "Exception" => exit_at \notin {"inter_greet", "inter_summary",
                                                     "inter_prefs", "perform_main",
                                                     "perform_offer"}

\* C6: at the top level of main a user interrupt ends the process with exit
\* code 0, whatever step the run was in, and any other exception that
\* reaches main ends it with a non-zero exit code: of the exceptions that
\* reach main only the interrupt gives exit code 0.
C6_TopLevelHandlers ==
    pc = "exited" =>
        /\ exit_via = "KeyboardInterrupt" => exit_code = 0
        /\ exit_via = "Exception" => exit_code # 0
        /\ (exit_via \in {"KeyboardInterrupt", "Exception"} /\ exit_code = 0)
              => exit_via = "KeyboardInterrupt"

\* An exception raised below main (in the video summary) reached main.
C6_Witness ==
    /\ pc = "exited"
    /\ exit_via = "Exception"
    /\ exit_at = "inter_summary"

\* run_batch_mode returned False before its loop.
BatchAborted ==
    /\ BatchRun
    /\ pc = "exited"
    /\ exit_via = "sys_exit"
    /\ exit_at \in {"batch_extract", "batch_prefs"}

\* C7 as stated: the only condition that makes the batch return without
\* processing any URL is an empty URL list; with a non-empty list the
\* per-URL loop is always entered.
C7_OnlyEmptyListAborts == BatchAborted => Len(urls) = 0

\* C7 amended: the batch returns without processing any URL exactly when
\* the URL list is empty or the answer to the confirmation does not start
\* with 'y'; with a non-empty list and an answer starting with 'y' the
\* per-URL loop is entered.
C7_EmptyOrDeclinedAborts ==
    /\ BatchAborted => (Len(urls) = 0 \/ ~StartsWith(confirm, "y"))
    /\ (BatchRun /\ Len(urls) > 0 /\ StartsWith(confirm, "y")) => i >= 1
    /\ (BatchRun /\ i >= 1) => (Len(urls) > 0 /\ StartsWith(confirm, "y"))

\* A batch with URLs found was declined at the confirmation.
C7_Witness ==
    /\ BatchAborted
    /\ Len(urls) > 0
    /\ confirm = "no"
    /\ i = 0

\* C8: the quality chosen by the user (--quality in quick mode, the quality
\* answer in interactive and batch mode) is the format requested from the
\* media collaborator for a download that is not audio-only ('best' when
\* none is given).
C8_QualityIsFormat ==
    LET chosen == IF BatchRun THEN batch_prefs ELSE preferences
    IN  \A k \in DOMAIN calls :
            (calls[k].op = "download_video" /\ ~Get(chosen, "audio_only", FALSE)) =>
                calls[k].format = Get(chosen, "quality", "best")

Rank(op) ==
    IF op = "get_video_info" THEN 1
    ELSE IF op = "download_video" THEN 2
    ELSE IF op = "download_subtitles" THEN 3
    ELSE 4

\* Entry e of the batch is done: the loop is past it.
EntryDone(e) == e < i

HasCall(e, op) == \E k \in DOMAIN calls : calls[k].entry = e /\ calls[k].op = op

Downloaded(e) ==
    \E k \in DOMAIN calls :
        calls[k].entry = e /\ calls[k].op = "download_video" /\ calls[k].oc = "ok"

\* C9: batch mode consumes its URL list strictly in order, one entry at a
\* time: the collaborator calls are made entry by entry, each for the URL
\* of its entry, within an entry in the order analysis, download,
\* subtitles, thumbnail; an entry's requested sub-downloads are made before
\* any call for the next entry, and no entry is skipped.
C9_BatchInOrder ==
    BatchRun =>
        /\ \A k \in DOMAIN calls :
              /\ calls[k].entry \in 1..Len(urls)
              /\ calls[k].entry <= i
              /\ calls[k].url = urls[calls[k].entry]
        /\ \A j, k \in DOMAIN calls :
              j < k => \/ calls[j].entry < calls[k].entry
                       \/ /\ calls[j].entry = calls[k].entry
                          /\ Rank(calls[j].op) < Rank(calls[k].op)
        /\ \A e \in 1..Len(urls) :
              EntryDone(e) =>
                  /\ HasCall(e, "get_video_info")
                  /\ (Downloaded(e) /\ Get(batch_prefs, "subtitles", FALSE))
                        => HasCall(e, "download_subtitles")
                  /\ (Downloaded(e) /\ Get(batch_prefs, "thumbnails", FALSE))
                        => HasCall(e, "download_thumbnail")

\* Two entries were downloaded, the first with its subtitles and thumbnail.
C9_Witness ==
    /\ BatchRun
    /\ Len(calls) >= 6
    /\ HasCall(1, "download_subtitles")
    /\ HasCall(1, "download_thumbnail")
    /\ HasCall(2, "download_video")
    /\ urls[1] # urls[2]

\* The duration token of the claim, by floor arithmetic on seconds.
ClaimedToken(seconds) ==
    IF seconds \div 60 < 60
    THEN Str(seconds \div 60) \o "m"
    ELSE Str(seconds \div 3600) \o "h" \o Str((seconds \div 60) % 60) \o "m"

EndsWith(s, t) == Len(s) >= Len(t) /\ SubSeq(s, Len(s) - Len(t) + 1, Len(s)) = t

\* The name built from the uploader and the title alone.
WithoutDuration(video_info) ==
    suggest_filename([k \in DOMAIN video_info \ {"duration"} |-> video_info[k]])

\* C10: for every metadata with integer duration > 0, suggest_filename
\* appends the token "{minutes}m" when the duration is under 60 minutes and
\* "{hours}h{minutes}m" otherwise (hours = seconds div 3600, minutes =
\* (seconds div 60) mod 60); for duration absent or 0 it appends none.
C10_DurationToken ==
    pc = "applied" =>
        LET duration == Get(fn_arg, "duration", Some(0))
        IN  IF ~duration.none /\ duration.v > 0
            THEN \/ fn_ret = ClaimedToken(duration.v)
                 \/ EndsWith(fn_ret, " - " \o ClaimedToken(duration.v))
            ELSE fn_ret = WithoutDuration(fn_arg)

\* The characters the claimed title part is made of.
TitleChars == Range(LowerLetters) \cup Range(UpperLetters) \cup Range(DigitChars) \cup {" ", "-"}

\* suggest_filename was applied to a title (present, not 'unknown') and a
\* duration of 120 seconds, no uploader: the name is the title part, the
\* separator and "2m".
TitleAndTwoMinutes ==
    /\ pc = "applied"
    /\ DOMAIN fn_arg = {"title", "duration"}
    /\ fn_arg.duration = Some(120)
    /\ ~fn_arg.title.none
    /\ Lower(fn_arg.title.v) # "unknown"

\* C11: for every title that is present and not 'unknown', the title part
\* of the suggested name is made of letters, digits, single spaces and
\* hyphens only (underscore and punctuation stripped), has no run of two
\* whitespace characters and is at most 50 characters long.
C11_TitlePartClean ==
    TitleAndTwoMinutes =>
        /\ EndsWith(fn_ret, " - 2m")
        /\ LET part == SubSeq(fn_ret, 1, Len(fn_ret) - Len(" - 2m"))
           IN  /\ \A k \in 1..Len(part) : CharAt(part, k) \in TitleChars
               /\ \A k \in 1..(Len(part) - 1) :
                      ~(IsSpace(CharAt(part, k)) /\ IsSpace(CharAt(part, k + 1)))
               /\ Len(part) <= TitleMaxLen

\* The parts of the name for the metadata given, in the order uploader,
\* title, duration, the omitted ones left out.
NameParts(video_info) ==
    UploaderParts(Get(video_info, "uploader", Some("unknown")))
    \o TitleParts(Get(video_info, "title", Some("unknown")))
    \o DurationParts(Get(video_info, "duration", Some(0)))

\* C12: suggest_filename never returns an empty or whitespace-only string:
\* when all three parts are omitted, or the parts joined by " - " are empty
\* after trimming, the result is exactly "video_download"; otherwise it is
\* the non-omitted parts joined by " - " in the order uploader, title,
\* duration.
C12_NeverEmptyName ==
    pc = "applied" =>
        LET joined == Join(" - ", NameParts(fn_arg))
        IN  /\ Strip(fn_ret) # ""
            /\ (NameParts(fn_arg) = << >> \/ Strip(joined) = "") => fn_ret = "video_download"
            /\ Strip(joined) # "" => fn_ret = joined
            /\ DOMAIN fn_arg = {} => fn_ret = "video_download"

\* A name of whitespace only (the uploader " ") was replaced by the fallback.
C12_Witness ==
    /\ pc = "applied"
    /\ fn_arg = [uploader |-> Some(" ")]
    /\ fn_ret = "video_download"

(***************************************************************************)
(* parse_url_list on its own: the text drawn from a bounded set.           *)
(***************************************************************************)
MaxEntries == 3

\* What stands between two separators: URLs, with and without whitespace
\* around them, something that is no URL, nothing.
ParseEntries == {"https://youtu.be/a", " https://vimeo.com/1\t", "not a url", ""}

ParseSeparators == {",", "\n", "\r\n"}

RECURSIVE ParseTexts(_)
\* The texts of n entries.
ParseTexts(n) ==
    IF n = 1 THEN ParseEntries
    ELSE {t \o sep \o e : t \in ParseTexts(n - 1), sep \in ParseSeparators, e \in ParseEntries}

InitParse ==
    /\ args = CHOOSE a \in ArgsSet : a.url = "" /\ a.batch = ""
    /\ api_key = FALSE
    /\ pc = "pure"
    /\ fn_arg \in UNION {ParseTexts(n) : n \in 1..MaxEntries}
    /\ fn_ret = << >>
    /\ Idle

ApplyParse ==
    /\ pc = "pure"
    /\ fn_ret' = parse_url_list(fn_arg)
    /\ pc' = "applied"
    /\ UNCHANGED <<args, api_key, fn_arg, exitVars, objVars, conversation_history,
                   current_url, current_video_info, preferences, confirm, batchVars, calls,
                   last_result, ai_last>>

NextParse == ApplyParse

SpecParse == InitParse /\ [][NextParse]_vars

RECURSIVE SplitEntries(_)
\* The text cut at every newline and every comma, each piece trimmed.
SplitEntries(text) ==
    LET cut == FirstIndex({",", "\n"}, text)
    IN  IF cut = 0 THEN <<Strip(text)>>
        ELSE <<Strip(SubSeq(text, 1, cut - 1))>> \o SplitEntries(DropFirst(text, cut))

\* How often x occurs in the sequence q.
Occurrences(q, x) == Cardinality({k \in DOMAIN q : q[k] = x})

\* C13: parse_url_list returns exactly the entries, obtained by splitting
\* the text on newlines and commas and trimming whitespace, that pass
\* is_valid_url, in their original order and with duplicates retained: an
\* entry occurring k times in the input occurs k times in the output.
C13_ParseKeepsOrderAndRepeats ==
    pc = "applied" =>
        LET entries == SplitEntries(fn_arg)
        IN  /\ fn_ret = SelectSeq(entries, is_valid_url)
            /\ \A k \in DOMAIN entries :
                   Occurrences(fn_ret, entries[k]) =
                       IF is_valid_url(entries[k]) THEN Occurrences(entries, entries[k]) ELSE 0

\* A text with the same URL twice, an invalid entry between them.
C13_Witness ==
    /\ pc = "applied"
    /\ fn_arg = "https://youtu.be/a,not a url\r\nhttps://youtu.be/a"
    /\ fn_ret = <<"https://youtu.be/a", "https://youtu.be/a">>

(***************************************************************************)
(* extract_video_urls_from_webpage on its own: the page drawn from a       *)
(* bounded set, the same link found by more than one pass.                 *)
(***************************************************************************)
ExtractPages ==
    [links   : SUBSET {"https://youtu.be/a", "https://vimeo.com/1", "https://example.com/about"},
     iframes : SUBSET {"https://youtu.be/a", "https://player.vimeo.com/video/1"},
     text    : SUBSET {"https://youtu.be/a", "https://vimeo.com/1"}]

InitExtract ==
    /\ args = CHOOSE a \in ArgsSet : a.url = "" /\ a.batch = ""
    /\ api_key = FALSE
    /\ pc = "pure"
    /\ fn_arg \in [oc : Outcomes, page : ExtractPages]
    /\ fn_ret = << >>
    /\ Idle

ApplyExtract ==
    /\ pc = "pure"
    /\ fn_ret' \in extract_video_urls_from_webpage(fn_arg.oc, fn_arg.page)
    /\ pc' = "applied"
    /\ UNCHANGED <<args, api_key, fn_arg, exitVars, objVars, conversation_history,
                   current_url, current_video_info, preferences, confirm, batchVars, calls,
                   last_result, ai_last>>

NextExtract == ApplyExtract

SpecExtract == InitExtract /\ [][NextExtract]_vars

\* The links of the page, whatever pass finds them.
PageLinks(page) == page.links \cup page.iframes \cup page.text

\* C14: extract_video_urls_from_webpage returns a collection without
\* duplicates: a video link found by more than one of the three passes is
\* in the result exactly once, and every returned URL passes is_valid_url
\* and the known-platform predicate.
C14_ExtractNoDuplicates ==
    pc = "applied" =>
        /\ \A j, k \in DOMAIN fn_ret : j # k => fn_ret[j] # fn_ret[k]
        /\ \A k \in DOMAIN fn_ret :
               /\ is_valid_url(fn_ret[k])
               /\ is_video_url(fn_ret[k])
               /\ fn_ret[k] \in PageLinks(fn_arg.page)
        /\ fn_arg.oc = "ok" =>
               \A u \in PageLinks(fn_arg.page) :
                   is_video_url(u) => Occurrences(fn_ret, u) = 1
        /\ fn_arg.oc = "fault" => fn_ret = << >>

\* The same link was in an anchor, in a frame and in the text.
C14_Witness ==
    /\ pc = "applied"
    /\ fn_arg.oc = "ok"
    /\ "https://youtu.be/a" \in fn_arg.page.links \cap fn_arg.page.iframes \cap fn_arg.page.text
    /\ "https://vimeo.com/1" \in fn_arg.page.links \cap fn_arg.page.text
    /\ Len(fn_ret) = 2

(***************************************************************************)
(* sanitize_filename on its own: the name drawn from a bounded set, some   *)
(* names longer than 200 characters before and after the whitespace is     *)
(* collapsed.                                                              *)
(***************************************************************************)
MaxBlocks == 40

RECURSIVE Repeat(_, _)
\* s * n
Repeat(s, n) == IF n = 0 THEN "" ELSE s \o Repeat(s, n - 1)

SanitizeNames ==
    {p \o Repeat(b, n) :
        p \in {"", "My:Video/Clip?\"Test", "  a \t b\n", "<>|*\\"},
        b \in {"ab:cd  ", "x", " /\t"},
        n \in 0..3 \cup {MaxBlocks - 1, MaxBlocks}}

InitSanitize ==
    /\ args = CHOOSE a \in ArgsSet : a.url = "" /\ a.batch = ""
    /\ api_key = FALSE
    /\ pc = "pure"
    /\ fn_arg \in SanitizeNames
    /\ fn_ret = ""
    /\ Idle

ApplySanitize ==
    /\ pc = "pure"
    /\ fn_ret' = sanitize_filename(fn_arg)
    /\ pc' = "applied"
    /\ UNCHANGED <<args, api_key, fn_arg, exitVars, objVars, conversation_history,
                   current_url, current_video_info, preferences, confirm, batchVars, calls,
                   last_result, ai_last>>

NextSanitize == ApplySanitize

SpecSanitize == InitSanitize /\ [][NextSanitize]_vars

\* The name with its forbidden characters replaced and its whitespace
\* collapsed, not cut.
ReplacedAndCollapsed(name) == Join(" ", SplitWs(Replace(ForbiddenChars, "_", name)))

\* C15: for every input string sanitize_filename returns a string with none
\* of the characters < > : " / \ | ? * (each replaced by an underscore),
\* with no run of two or more whitespace characters, and of at most 200
\* characters; the steps are applied in the order replace, collapse
\* whitespace, truncate: the result is the first 200 characters of the
\* replaced and collapsed name.
C15_SanitizeSafe ==
    pc = "applied" =>
        /\ \A k \in 1..Len(fn_ret) : CharAt(fn_ret, k) \notin ForbiddenChars
        /\ \A k \in 1..(Len(fn_ret) - 1) :
               ~(IsSpace(CharAt(fn_ret, k)) /\ IsSpace(CharAt(fn_ret, k + 1)))
        /\ \A k \in 1..Len(fn_ret) : IsSpace(CharAt(fn_ret, k)) => CharAt(fn_ret, k) = " "
        /\ Len(fn_ret) <= 200
        /\ LET whole == ReplacedAndCollapsed(fn_arg)
           IN  /\ Len(fn_ret) = Min(200, Len(whole))
               /\ fn_ret = SubSeq(whole, 1, Len(fn_ret))
        /\ \A k \in 1..Len(fn_ret) :
               CharAt(fn_ret, k) = "_" =>
                   \E j \in 1..Len(fn_arg) : CharAt(fn_arg, j) \in ForbiddenChars \cup {"_"}

\* A name of more than 200 characters, forbidden characters and runs of
\* whitespace among its first 200, was cut to exactly 200.
C15_Witness ==
    /\ pc = "applied"
    /\ Len(fn_arg) > 200
    /\ \E k \in 1..199 : IsSpace(CharAt(fn_arg, k)) /\ IsSpace(CharAt(fn_arg, k + 1))
    /\ \E k \in 1..200 : CharAt(fn_arg, k) \in ForbiddenChars
    /\ Len(fn_ret) = 200

(***************************************************************************)
(* The operations that read the metadata, on their own: the metadata drawn *)
(* from the mappings with any subset of the recognized keys missing.       *)
(***************************************************************************)
\* A metadata mapping with every recognized field.
FullInfo ==
    [title       |-> Some("Talk: part 1"),
     uploader    |-> Some("Joe Blow"),
     duration    |-> Some(125),
     view_count  |-> Some(1234567),
     description |-> Some("About the talk"),
     thumbnail   |-> Some("https://i.ytimg.com/vi/a/0.jpg"),
     subtitles   |-> Some("en")]

MetaInfos == {[k \in present |-> FullInfo[k]] : present \in SUBSET DOMAIN FullInfo}

InitMeta ==
    /\ args = CHOOSE a \in ArgsSet : a.url = "" /\ a.batch = ""
    /\ api_key \in BOOLEAN
    /\ pc = "pure"
    /\ fn_arg \in [info : MetaInfos, oc : Outcomes]
    /\ fn_ret = << >>
    /\ Idle

\* suggest_filename, the fallback summary, the resource offer and the brief
\* information of the batch loop, each applied to the metadata.
ApplyMeta ==
    /\ pc = "pure"
    /\ fn_ret' =
          [suggest |-> Return(suggest_filename(fn_arg.info)),
           summary |-> fallback_video_summary(fn_arg.info),
           offer   |-> offer_related_resources(api_key, fn_arg.oc, " Enjoy! ",
                                               fn_arg.info).outcome,
           brief   |-> brief_video_info(fn_arg.info)]
    /\ pc' = "applied"
    /\ UNCHANGED <<args, api_key, fn_arg, exitVars, objVars, conversation_history,
                   current_url, current_video_info, preferences, confirm, batchVars, calls,
                   last_result, ai_last>>

NextMeta == ApplyMeta

SpecMeta == InitMeta /\ [][NextMeta]_vars

\* The metadata with suggest_filename's default ('unknown', 0) in place of
\* each missing field it reads.
WithDefaults(video_info) ==
    [k \in {"title", "uploader", "duration"} |->
        IF k \in DOMAIN video_info THEN video_info[k]
        ELSE IF k = "duration" THEN Some(0)
        ELSE Some("unknown")]

\* C16: the absence of any recognized metadata field never makes an
\* operation fail: for every metadata mapping with any subset of the keys
\* title, uploader, duration, view_count, description, thumbnail, subtitles
\* missing, suggest_filename, the fallback video summary, the resource
\* offer and the brief information of the batch loop complete without
\* raising, and give what they give for the default value in place of the
\* missing field ('unknown'/'Unknown', 0, format_duration's "Unknown").
C16_MissingFieldsTolerated ==
    pc = "applied" =>
        LET info == fn_arg.info
        IN  /\ \A op \in DOMAIN fn_ret : ~fn_ret[op].raised
            /\ fn_ret.suggest.value = suggest_filename(WithDefaults(info))
            /\ "title" \notin DOMAIN info => Contains(fn_ret.summary.value, "Title: Unknown ")
            /\ "uploader" \notin DOMAIN info => Contains(fn_ret.summary.value, "Channel: Unknown ")
            /\ "duration" \notin DOMAIN info => Contains(fn_ret.summary.value, "Duration: Unknown ")
            /\ "view_count" \notin DOMAIN info => Contains(fn_ret.summary.value, "Views: 0 views")
            /\ "title" \notin DOMAIN info => Contains(fn_ret.brief.value, "Title: Unknown ")
            /\ "duration" \notin DOMAIN info => Contains(fn_ret.brief.value, "Duration: Unknown")
            /\ {"uploader", "title", "duration"} \cap DOMAIN info = {}
                  => fn_ret.suggest.value = "video_download"

\* The operations were applied to a metadata with view_count and title
\* missing.
C16_Witness ==
    /\ pc = "applied"
    /\ DOMAIN fn_arg.info = {"uploader", "duration", "description"}
    /\ Contains(fn_ret.summary.value, "Views: 0 views")
    /\ fn_ret.suggest.value = "Joe Blow - 2m"

\* The preference values the whole batch shares.
SharedKeys == {"audio_only", "quality", "subtitles", "thumbnails"}

\* C17: in batch mode the shared preferences collected before the loop are
\* immutable: processing a URL, the setting of its suggested custom
\* filename included, leaves the shared audio_only, quality, subtitles and
\* thumbnails values unchanged (and adds nothing to them), the preferences
\* of the entry in hand carry the shared values, and every URL of the batch
\* is downloaded with the shared audio_only value.
C17_SharedPrefsImmutable ==
    /\ [][InLoop => batch_prefs' = batch_prefs]_vars
    /\ [](BatchRun /\ i >= 1 => DOMAIN batch_prefs \subseteq SharedKeys)
    /\ [](pc \in {"batch_download", "batch_subs", "batch_thumb"} =>
             /\ \A k \in DOMAIN batch_prefs : preferences[k] = batch_prefs[k]
             /\ DOMAIN preferences \ DOMAIN batch_prefs \subseteq {"custom_filename"})
    /\ [](BatchRun =>
             \A k \in DOMAIN calls :
                 calls[k].op = "download_video" =>
                     (calls[k].format = "bestaudio/best") = batch_prefs.audio_only)

\* Two entries were downloaded under different suggested names, the shared
\* preferences without a custom filename.
C17_Witness ==
    /\ BatchRun
    /\ pc = "batch_summary"
    /\ "custom_filename" \notin DOMAIN batch_prefs
    /\ \E j, k \in DOMAIN calls :
          /\ calls[j].op = "download_video" /\ calls[j].entry = 1
          /\ calls[k].op = "download_video" /\ calls[k].entry = 2
          /\ calls[j].outtmpl # calls[k].outtmpl

\* The entries the counters have counted: those the loop is past, and the
\* entry in hand once its main download succeeded.
Counted ==
    LET at == IF pc = "exited" THEN exit_at ELSE pc
    IN  IF at \in {"batch_subs", "batch_thumb"} THEN i ELSE i - 1

\* C18: throughout the batch loop, after the i-th URL has been processed,
\* successful + failed = i; each URL changes exactly one of the two
\* counters, by exactly one; at the summary successful + failed is the
\* number of URLs found.
C18_CountersAddUp ==
    /\ [](BatchRun /\ i >= 1 =>
             /\ successful + failed = Counted
             /\ successful >= 0 /\ failed >= 0
             /\ pc = "batch_summary" => successful + failed = Len(urls))
    /\ [](BatchRun /\ exit_at = "batch_summary" => successful + failed = Len(urls))
    /\ [][InLoop =>
             /\ <<successful', failed'>> \in {<<successful, failed>>,
                                              <<successful + 1, failed>>,
                                              <<successful, failed + 1>>}
             /\ Counted' \in {Counted, Counted + 1}
             /\ Counted' = Counted + 1 => <<successful', failed'>> # <<successful, failed>>]_vars

\* A batch of two URLs ended with one of them downloaded and one failed.
C18_Witness ==
    /\ BatchRun
    /\ pc = "exited"
    /\ exit_at = "batch_summary"
    /\ Len(urls) = 2
    /\ successful = 1
    /\ failed = 1

\* A batch run that entered its loop is over, and was not interrupted.
BatchReturned ==
    /\ BatchRun
    /\ i >= 1
    /\ pc = "exited"
    /\ exit_via # "KeyboardInterrupt"

\* C19: a batch run that entered the per-URL loop returns success (process
\* exit code 0) if and only if at least one URL was downloaded
\* successfully; a batch in which every URL failed, an empty URL list and
\* a declined confirmation all end with exit code 1.
C19_BatchExitCode ==
    /\ BatchReturned =>
          /\ exit_at = "batch_summary"
          /\ exit_code \in {0, 1}
          /\ exit_code = 0 <=> \E e \in 1..Len(urls) : Downloaded(e)
          /\ exit_code = 0 <=> successful > 0
          /\ failed = Len(urls) => exit_code = 1
    /\ BatchAborted =>
          /\ exit_code = 1
          /\ Len(urls) = 0 \/ ~StartsWith(confirm, "y")

\* Both URLs of a batch failed, one in the analysis and one in the
\* download, and the run ended with exit code 1.
C19_Witness ==
    /\ BatchReturned
    /\ Len(urls) = 2
    /\ failed = 2
    /\ exit_code = 1
    /\ \E k \in DOMAIN calls : calls[k].op = "download_video" /\ calls[k].oc = "fault"
    /\ \E k \in DOMAIN calls : calls[k].op = "get_video_info" /\ calls[k].oc = "fault"

\* The preferences the sub-downloads are decided by, and the name of the
\* thumbnail preference in them ('thumbnail' in perform_download,
\* 'thumbnails' in run_batch_mode).
SubPrefs == IF BatchRun THEN batch_prefs ELSE preferences

ThumbKey == IF BatchRun THEN "thumbnails" ELSE "thumbnail"

SubDownloadStep == pc \in {"perform_subs", "perform_thumb", "batch_subs", "batch_thumb"}

\* The step that follows the sub-downloads of the URL in hand.
AfterSubDownloads ==
    IF ~BatchRun THEN "perform_offer"
    ELSE IF i < Len(urls) THEN "batch_item" ELSE "batch_summary"

\* C20: the subtitle and thumbnail sub-downloads of a URL are attempted
\* only after the main download of that same URL returned success=true and
\* only when the corresponding preference is set; a failed sub-download is
\* a warning only: it does not prevent the other sub-download, changes
\* neither counter and does not change the outcome of the run.
C20_SubDownloadsAfterMain ==
    /\ [](\A k \in DOMAIN calls :
             calls[k].op \in {"download_subtitles", "download_thumbnail"} =>
                 /\ \E j \in 1..(k - 1) :
                        /\ calls[j].op = "download_video"
                        /\ calls[j].oc = "ok"
                        /\ calls[j].entry = calls[k].entry
                        /\ calls[j].url = calls[k].url
                 /\ Get(SubPrefs, IF calls[k].op = "download_subtitles"
                                  THEN "subtitles" ELSE ThumbKey, FALSE))
    /\ [][(SubDownloadStep /\ exit_via' # "KeyboardInterrupt") =>
             /\ successful' = successful
             /\ failed' = failed
             /\ pc' = IF pc \in {"perform_subs", "batch_subs"} /\ Get(SubPrefs, ThumbKey, FALSE)
                      THEN (IF BatchRun THEN "batch_thumb" ELSE "perform_thumb")
                      ELSE AfterSubDownloads]_vars
    /\ []((pc = "exited" /\ exit_via # "KeyboardInterrupt"
              /\ \E k \in DOMAIN calls :
                    calls[k].op \in {"download_subtitles", "download_thumbnail"})
           => exit_code = 0)

\* The subtitles of a URL failed and its thumbnail was attempted all the
\* same; the run ended with exit code 0.
C20_Witness ==
    /\ pc = "exited"
    /\ exit_via = "return"
    /\ exit_code = 0
    /\ \E j, k \in DOMAIN calls :
          /\ j < k
          /\ calls[j].op = "download_subtitles" /\ calls[j].oc = "fault"
          /\ calls[k].op = "download_thumbnail" /\ calls[k].entry = calls[j].entry

\* A run of run_interactive_mode: a URL, no --batch, no --no-ai.
InteractiveRun == args.url # "" /\ args.batch = "" /\ ~args.no_ai

DownloadOps == {"download_video", "download_subtitles", "download_thumbnail"}

DownloadCalls == {k \in DOMAIN calls : calls[k].op \in DownloadOps}

\* The "Proceed ...?" question was asked and the run ended on the answer.
Declined ==
    /\ pc = "exited"
    /\ exit_via = "sys_exit"
    /\ exit_at \in {"inter_confirm", "batch_prefs"}

\* C21: in interactive mode and in batch mode a download call (main,
\* subtitle or thumbnail) is issued to the media collaborator only when the
\* answer to the final "Proceed" question, as the code reads it (stripped
\* and lower-cased), starts with 'y'; a declined confirmation ends the
\* operation, with exit code 1 and without any download call.
C21_NoDownloadUnlessConfirmed ==
    (InteractiveRun \/ BatchRun) =>
        /\ DownloadCalls # {} => StartsWith(confirm, "y")
        /\ Declined => /\ ~StartsWith(confirm, "y")
                       /\ DownloadCalls = {}
                       /\ exit_code = 1
        /\ (pc \in {"inter_confirm", "batch_prefs"}) => DownloadCalls = {}

\* An interactive run whose metadata was fetched and whose confirmation was
\* answered "no": the collaborator was called, but for no download.
C21_Witness ==
    /\ InteractiveRun
    /\ Declined
    /\ confirm = "no"
    /\ calls # << >>
    /\ DownloadCalls = {}

\* The last call made to the media collaborator (after a step that made one).
LastCall(log) == log[Len(log)]

BatchDownloadStep == pc \in {"batch_download", "batch_subs", "batch_thumb"}

\* C22: at every download call of the batch loop current_url is the URL of
\* the entry in hand and current_video_info is the metadata fetched for that
\* entry in the same iteration, and the file name passed is the one
\* suggested from it: the latest metadata call before a download call is a
\* successful one for the same entry and URL, current_video_info changes
\* only when metadata is fetched and then to what was fetched, and nothing
\* of an earlier entry is used after an entry failed.
C22_EntryOwnMetadata ==
    /\ [](BatchRun =>
            \A k \in DownloadCalls :
                /\ calls[k].entry \in DOMAIN urls
                /\ calls[k].url = urls[calls[k].entry]
                /\ \E j \in 1..(k - 1) :
                      /\ calls[j].op = "get_video_info"
                      /\ calls[j].oc = "ok"
                      /\ calls[j].entry = calls[k].entry
                      /\ calls[j].url = calls[k].url
                      /\ \A m \in (j + 1)..(k - 1) : calls[m].op # "get_video_info")
    /\ []((BatchRun /\ BatchDownloadStep) =>
            /\ current_url = Some(urls[i])
            /\ ~Falsy(current_video_info)
            /\ Get(preferences, "custom_filename", None)
                   = Some(suggest_filename(current_video_info.v))
            /\ LastCall(calls).entry = i
            /\ pc = "batch_download" => LastCall(calls).op = "get_video_info")
    /\ [][BatchRun =>
            IF calls' # calls /\ LastCall(calls').op = "get_video_info"
            THEN \E info \in Infos :
                     current_video_info' = get_video_info(LastCall(calls').oc, info).value
            ELSE current_video_info' = current_video_info]_vars
    /\ [][(BatchRun /\ pc = "batch_download" /\ calls' # calls) =>
            /\ LastCall(calls').op = "download_video"
            /\ LastCall(calls').url = urls[i]
            /\ LastCall(calls').outtmpl =
                   download_video_opts(download_path, None, FALSE,
                       Some(suggest_filename(current_video_info.v))).outtmpl]_vars

\* The analysis of the first entry failed and the second entry, another
\* URL, was downloaded.
C22_Witness ==
    /\ BatchRun
    /\ Len(urls) >= 2
    /\ urls[1] # urls[2]
    /\ \E j, k \in DOMAIN calls :
          /\ j < k
          /\ calls[j].op = "get_video_info" /\ calls[j].entry = 1 /\ calls[j].oc = "fault"
          /\ calls[k].op = "download_video" /\ calls[k].entry = 2

(***************************************************************************)
(* sanitize_filename applied to its own result.  The names are those of    *)
(* SanitizeNames and names whose collapsed form has a space at or around   *)
(* the 200th character.                                                    *)
(***************************************************************************)
TwiceNames ==
    SanitizeNames \cup
    {Repeat("abcd ", MaxBlocks - 1) \o t :
        t \in {"", "abc", "abcd", "abcd z", "abc  z", "ab:c z", "abcde z", "abcd\tz:"}}

InitTwice ==
    /\ args = CHOOSE a \in ArgsSet : a.url = "" /\ a.batch = ""
    /\ api_key = FALSE
    /\ pc = "pure"
    /\ fn_arg \in TwiceNames
    /\ fn_ret = ""
    /\ Idle

\* once = sanitize_filename(name)
ApplyOnce ==
    /\ pc = "pure"
    /\ fn_ret' = sanitize_filename(fn_arg)
    /\ pc' = "applied"
    /\ UNCHANGED <<args, api_key, fn_arg, exitVars, objVars, conversation_history,
                   current_url, current_video_info, preferences, confirm, batchVars, calls,
                   last_result, ai_last>>

\* twice = sanitize_filename(once)
ApplyTwice ==
    /\ pc = "applied"
    /\ fn_ret' = [once |-> fn_ret, twice |-> sanitize_filename(fn_ret)]
    /\ pc' = "reapplied"
    /\ UNCHANGED <<args, api_key, fn_arg, exitVars, objVars, conversation_history,
                   current_url, current_video_info, preferences, confirm, batchVars, calls,
                   last_result, ai_last>>

NextTwice ==
    \/ ApplyOnce
    \/ ApplyTwice

SpecTwice == InitTwice /\ [][NextTwice]_vars

\* C23: sanitize_filename is idempotent: for every input string s,
\* sanitize_filename(sanitize_filename(s)) = sanitize_filename(s), inputs
\* longer than the truncation length included.
C23_SanitizeIdempotent ==
    pc = "reapplied" => fn_ret.twice = fn_ret.once

====
